---- MODULE Spec2Model ----
(***************************************************************************)
(* A model of funq's client-side object layer (client/funq/models.py):     *)
(* the metaclass dispatch that picks the class of a remote object, the     *)
(* tree collections (TreeItems / ModelItems) with their recursive          *)
(* iterator, the named-path lookup, the property proxy and the property    *)
(* polling, the click-style operations, the editor lookup of a view and    *)
(* the text choice of a combobox.                                          *)
(***************************************************************************)
EXTENDS Integers, Sequences, FiniteSets, TLC

(***************************************************************************)
(* Bounds of the model.                                                    *)
(***************************************************************************)
MaxChain == 3        \* longest 'classes' chain of a descriptor
MaxCallDepth == 3    \* deepest nesting of metaclass calls the model follows
MaxNodes == 3        \* most item descriptors in a 'model_items' reply
MaxPath == 2         \* most segments of a named path given as a list
MaxTimeout == 2      \* longest timeout given to wait_for_properties, in ticks
MaxInterval == 2     \* longest poll interval given to wait_for_properties, in ticks

(***************************************************************************)
(* Values shared by all parts.                                             *)
(***************************************************************************)
\* Python's None, as an attribute or return value.
None == [kind |-> "None"]

\* The command channel object given to every constructor.
TheClient == [kind |-> "client", name |-> "funq"]

VARIABLES
    _cpp_classes,   \* WidgetMetaClass._cpp_classes: C++ class name -> class
    classes,        \* the classes that exist (created through the metaclass)
    d_pc,           \* dispatch: "idle", "calling" or "done"
    d_cls,          \* dispatch: the class the caller called (the variant V)
    d_data,         \* dispatch: the descriptor given by the caller
    d_stack,        \* dispatch: the classes whose __call__ is running, outermost first
    d_built,        \* dispatch: the instances constructed during the call, in order
    d_ret,          \* dispatch: the value returned to the caller
    reply,          \* tree: the reply of the server that describes the items
    coll,           \* tree: the collection built from the reply (None before)
    gen,            \* tree: the generator objects made by __iter__, by identity
    t_pc,           \* tree: per traversal, "idle", "running" or "done"
    t_out,          \* tree: per traversal, the items it was handed, in order
    p_pc,           \* named path: "idle", or "done" once a lookup has returned
    p_op,           \* named path: the method called, "row" or "item"
    p_args,         \* named path: the arguments of the call
    p_levels,       \* named path: the sibling lists the while loop scanned, in order
    p_row,          \* named path: what row_by_named_path returned
    p_ret,          \* named path: what item_by_named_path returned
    p_after,        \* named path: the elements of the caller's path object after the call
    p_calls,        \* named path: how many times the caller has made the call
    p_first,        \* named path: what the first of two calls returned (None before)
    remote,         \* the properties of the remote object, as the server holds them
    now,            \* the wall clock, in ticks
    w_pc,           \* wait: "idle", "evaluate", "sleep" or "done"
    w_args,         \* wait: props, timeout and timeout_interval of the call
    w_start,        \* wait: the clock at the first evaluation
    w_rounds,       \* wait: the sleeps made so far
    w_live,         \* wait: the properties fetched by the evaluation that ended the call
    w_true,         \* wait: whether some evaluation of check_props was true
    w_ret,          \* wait: the value returned (None before)
    sent,           \* channel: the commands the latest operation has sent, in order
    n_sent,         \* channel: how many commands were sent since the start
    n_ops,          \* channel: how many operations were called since the start
    c_pc,           \* channel: "idle", "waiting" (a click polls first), "model", "items"
                    \* or "set" (the next round trip of set_current_text), or "done"
    c_op,           \* channel: the latest operation called, with its arguments
    c_ret,          \* channel: what the latest operation returned or raised
    c_seen,         \* channel: the server's properties when the latest read was made
    c_prev,         \* channel: the operation called before the latest one, and its result
    written,        \* channel: per property name, the value of the last write
    c_frame         \* channel: the local variables of a set_current_text call under way

dispatchVars == <<_cpp_classes, classes, d_pc, d_cls, d_data, d_stack, d_built, d_ret>>

treeVars == <<reply, coll, gen, t_pc, t_out>>

pathVars == <<p_pc, p_op, p_args, p_levels, p_row, p_ret, p_after, p_calls, p_first>>

waitVars == <<remote, now, w_pc, w_args, w_start, w_rounds, w_live, w_true, w_ret>>

chanVars == <<sent, n_sent, n_ops, c_pc, c_op, c_ret, c_seen, c_prev, written, c_frame>>

(***************************************************************************)
(* Class registry and dynamic dispatch (WidgetMetaClass).                  *)
(***************************************************************************)

\* The classes models.py creates with WidgetMetaClass, in definition order.
ModuleClasses ==
    {"Object", "Action", "AbstractItemModel", "Widget", "AbstractItemView",
     "TableView", "TreeView", "TabBar", "GraphicsView", "ComboBox",
     "HeaderView", "QuickItem", "QuickWindow"}

\* The registry once models.py is imported: one entry per cpp_class= keyword.
ImportedRegistry ==
    [c \in {"QAbstractItemView", "QTableView", "QTreeView", "QTabBar",
            "QGraphicsView", "QComboBox", "QHeaderView", "QQuickItem",
            "QQuickWindow"} |->
        CASE c = "QAbstractItemView" -> "AbstractItemView"
          [] c = "QTableView" -> "TableView"
          [] c = "QTreeView" -> "TreeView"
          [] c = "QTabBar" -> "TabBar"
          [] c = "QGraphicsView" -> "GraphicsView"
          [] c = "QComboBox" -> "ComboBox"
          [] c = "QHeaderView" -> "HeaderView"
          [] c = "QQuickItem" -> "QuickItem"
          [] c = "QQuickWindow" -> "QuickWindow"]

\* Classes a test or an application may add later (class X(Widget, cpp_class=...)).
UserClasses == {"UserView"}

\* The C++ class names the server reports in the descriptors of the model.
ChainNames == {"QTableView", "QAbstractItemView", "QWidget", "QObject"}

\* What cpp_class= may be when a user class is created ("" stands for no keyword).
NoCppClass == ""

\* WidgetMetaClass.__new__: the registry after class `name` is created.
WidgetMetaClass__new__(reg, name, cpp_class) ==
    IF cpp_class # NoCppClass
        THEN [c \in DOMAIN reg \cup {cpp_class} |->
                 IF c = cpp_class THEN name ELSE reg[c]]
        ELSE reg

\* data.get('classes', [])
DataClasses(data) ==
    IF "classes" \in DOMAIN data THEN data.classes ELSE <<>>

\* The for loop of WidgetMetaClass.__call__ over the rest of the chain:
\* "redispatch" to a registered class, or "construct" cls itself.
RECURSIVE WalkChain(_, _, _)
RECURSIVE WalkChainNoIdentityCheck(_, _, _)
WalkChainNoIdentityCheck(cls, chain, reg) ==
    IF chain = <<>>
        THEN [kind |-> "construct"]
        ELSE IF Head(chain) \in DOMAIN reg
            THEN [kind |-> "redispatch", to |-> reg[Head(chain)]]
            ELSE WalkChainNoIdentityCheck(cls, Tail(chain), reg)

RECURSIVE WalkChainLeastDerived(_, _, _)
WalkChainLeastDerived(cls, chain, reg) ==
    IF chain = <<>>
        THEN [kind |-> "construct"]
        ELSE LET last == chain[Len(chain)]
             IN  IF last \in DOMAIN reg
                     THEN IF reg[last] = cls
                              THEN [kind |-> "construct"]
                              ELSE [kind |-> "redispatch", to |-> reg[last]]
                     ELSE WalkChainLeastDerived(cls, SubSeq(chain, 1, Len(chain) - 1), reg)

WalkChainKeepRequested(cls, chain, reg) ==
    IF \E i \in 1..Len(chain) : chain[i] \in DOMAIN reg /\ reg[chain[i]] = cls
        THEN [kind |-> "construct"]
        ELSE WalkChainNoIdentityCheck(cls, chain, reg)

WalkChain(cls, chain, reg) ==
    IF chain = <<>>
        THEN [kind |-> "construct"]
        ELSE IF Head(chain) \in DOMAIN reg
            THEN IF reg[Head(chain)] = cls
                     THEN [kind |-> "construct"]     \* break
                     ELSE [kind |-> "redispatch", to |-> reg[Head(chain)]]
            ELSE WalkChain(cls, Tail(chain), reg)

\* WidgetMetaClass.__call__(cls, client, data), one activation.
WidgetMetaClass__call__(cls, data, reg) ==
    WalkChain(cls, DataClasses(data), reg)

\* Object.__init__: the instance __dict__ after construction. The descriptor's
\* fields are set first, then client, then the two names of the proxy.
ObjectAttrs(client, data) ==
    [k \in DOMAIN data \cup {"client", "property", "properties"} |->
        IF k = "client" THEN client
        ELSE IF k \in {"property", "properties"} THEN [kind |-> "Properties"]
        ELSE data[k]]

\* type.__call__(cls, client, data): a new instance of exactly cls.
Object__init__(cls, client, data) ==
    [kind |-> "instance", class |-> cls, attrs |-> ObjectAttrs(client, data)]

\* self.oid: the instance attribute, or the class attribute oid = None.
ObjectOid(obj) == IF "oid" \in DOMAIN obj.attrs THEN obj.attrs.oid ELSE None

\* The descriptors of remote objects the model hands to the constructors.
Chains == UNION {[1..n -> ChainNames] : n \in 0..MaxChain}

ObjectDescriptors ==
    {[oid |-> 1, path |-> "mainWindow::view", classes |-> ch] : ch \in Chains}
    \cup {[oid |-> 1, path |-> "mainWindow::view"]}

\* class name(Widget, cpp_class=cpp): a class created after import.
DefineClass(name, cpp_class) ==
    /\ d_pc = "idle"
    /\ name \in UserClasses \ classes
    /\ classes' = classes \cup {name}
    /\ _cpp_classes' = WidgetMetaClass__new__(_cpp_classes, name, cpp_class)
    /\ UNCHANGED <<d_pc, d_cls, d_data, d_stack, d_built, d_ret>>
    /\ UNCHANGED <<treeVars, pathVars, waitVars, chanVars>>

\* The caller evaluates cls(client, data).
CallClass(cls, data) ==
    /\ d_pc = "idle"
    /\ cls \in classes
    /\ d_pc' = "calling"
    /\ d_cls' = cls
    /\ d_data' = data
    /\ d_stack' = <<cls>>
    /\ d_built' = <<>>
    /\ d_ret' = None
    /\ UNCHANGED <<_cpp_classes, classes>>
    /\ UNCHANGED <<treeVars, pathVars, waitVars, chanVars>>

\* The innermost running __call__ walks the chain: it calls the registered
\* class, or constructs its own class and every pending call returns that.
MetaCallStep ==
    /\ d_pc = "calling"
    /\ LET cls == d_stack[Len(d_stack)]
           r == WidgetMetaClass__call__(cls, d_data, _cpp_classes)
       IN  IF r.kind = "redispatch"
               THEN /\ Len(d_stack) < MaxCallDepth
                    /\ d_stack' = Append(d_stack, r.to)
                    /\ UNCHANGED <<d_pc, d_built, d_ret>>
               ELSE /\ d_built' = Append(d_built, Object__init__(cls, TheClient, d_data))
                    /\ d_ret' = Object__init__(cls, TheClient, d_data)
                    /\ d_pc' = "done"
                    /\ UNCHANGED d_stack
    /\ UNCHANGED <<_cpp_classes, classes, d_cls, d_data>>
    /\ UNCHANGED <<treeVars, pathVars, waitVars, chanVars>>

(***************************************************************************)
(* Tree entities and tree collections (TreeItem, TreeItems and subclasses). *)
(***************************************************************************)
\* Item texts are Python strings, modelled as sequences of characters.
Values == {<<"A">>, <<"B">>}
Rows == {0, 1}
Columns == {0, 1}

\* The collection classes and the item class each one builds (_item_class).
CollectionClasses == {"TreeItems", "ModelItems", "GItems"}

item_class(cls) ==
    CASE cls = "TreeItems" -> "TreeItem"
      [] cls = "ModelItems" -> "ModelItem"
      [] cls = "GItems" -> "GItem"

\* getattr(self, 'items', []) of a descriptor's fields.
RawItems(d) == IF "items" \in DOMAIN d THEN d.items ELSE <<>>

\* TreeItem.__init__(self, client, data) for an item of class cls: client is
\* set first, then every field of the descriptor, then items is replaced by
\* the list of built children.
RECURSIVE TreeItem__init__(_, _, _)
TreeItem__init__BaseChildren(cls, client, d) ==
    [class |-> cls,
     attrs |-> [k \in DOMAIN d \cup {"client", "items"} |->
                   IF k = "items"
                       THEN [i \in 1..Len(RawItems(d)) |->
                                TreeItem__init__("TreeItem", client, RawItems(d)[i])]
                   ELSE IF k \in DOMAIN d THEN d[k]
                   ELSE client]]

TreeItem__init__(cls, client, d) ==
    [class |-> cls,
     attrs |-> [k \in DOMAIN d \cup {"client", "items"} |->
                   IF k = "items"
                       THEN [i \in 1..Len(RawItems(d)) |->
                                TreeItem__init__(cls, client, RawItems(d)[i])]
                   ELSE IF k \in DOMAIN d THEN d[k]
                   ELSE client]]

\* TreeItems.__init__(self, client, data) for a collection of class cls;
\* data['items'] raises KeyError when the reply has no 'items'.
TreeItems__init__(cls, client, d) ==
    IF "items" \in DOMAIN d
        THEN [kind |-> "collection", class |-> cls, client |-> client,
              items |-> [i \in 1..Len(d.items) |->
                            TreeItem__init__(item_class(cls), client, d.items[i])]]
        ELSE [kind |-> "KeyError", key |-> "items"]

\* An item is named by its address: the positions to follow from the
\* collection's list down to it. <<>> names the collection itself.
RECURSIVE NodeAt(_, _)
NodeAt(items, addr) ==
    IF Len(addr) = 1 THEN items[addr[1]]
    ELSE NodeAt(items[addr[1]].attrs.items, Tail(addr))

\* owner.items, for the collection or for an item.
ItemsAt(items, addr) ==
    IF addr = <<>> THEN items ELSE NodeAt(items, addr).attrs.items

\* The number of descriptors in a list of descriptors, nested ones included.
RECURSIVE CountNodes(_)
CountNodes(ds) ==
    IF ds = <<>> THEN 0
    ELSE 1 + CountNodes(RawItems(Head(ds))) + CountNodes(Tail(ds))

\* The descriptor list with a new descriptor appended to the children of the
\* last descriptor, `depth` levels down.
RECURSIVE AppendAt(_, _, _)
AppendAt(ds, depth, d) ==
    IF depth = 0 THEN Append(ds, d)
    ELSE LET last == ds[Len(ds)]
             grown == [k \in DOMAIN last \cup {"items"} |->
                          IF k = "items" THEN AppendAt(RawItems(last), depth - 1, d)
                          ELSE last[k]]
         IN  [ds EXCEPT ![Len(ds)] = grown]

\* How deep the last descriptor chain of a list goes.
RECURSIVE SpineDepth(_)
SpineDepth(ds) ==
    IF ds = <<>> THEN 0 ELSE 1 + SpineDepth(RawItems(ds[Len(ds)]))

\* The remote model gets one more item before the client asks for the items.
ServerAddItem(depth, row, column, value) ==
    /\ coll = None
    /\ "items" \in DOMAIN reply
    /\ CountNodes(reply.items) < MaxNodes
    /\ depth <= SpineDepth(reply.items)
    /\ reply' = [reply EXCEPT !.items =
                   AppendAt(@, depth, [row |-> row, column |-> column, value |-> value])]
    /\ UNCHANGED <<coll, gen, t_pc, t_out>>
    /\ UNCHANGED <<dispatchVars, pathVars, waitVars, chanVars>>

\* The remote model gets one more item, described by any descriptor d.
ServerAddDescriptor(depth, d) ==
    /\ coll = None
    /\ "items" \in DOMAIN reply
    /\ CountNodes(reply.items) < MaxNodes
    /\ depth <= SpineDepth(reply.items)
    /\ reply' = [reply EXCEPT !.items = AppendAt(@, depth, d)]
    /\ UNCHANGED <<coll, gen, t_pc, t_out>>
    /\ UNCHANGED <<dispatchVars, pathVars, waitVars, chanVars>>

\* A reply of the server with no 'items' field.
ReplyWithoutItems == [oid |-> 1]

\* The server describes a model without items by a reply without the field.
ServerOmitsItems ==
    /\ coll = None
    /\ reply = [items |-> <<>>]
    /\ reply' = ReplyWithoutItems
    /\ UNCHANGED <<coll, gen, t_pc, t_out>>
    /\ UNCHANGED <<dispatchVars, pathVars, waitVars, chanVars>>

\* The model and the graphics view whose items the client asks for.
TheModel == Object__init__("AbstractItemModel", TheClient, [oid |-> 1])

TheGraphicsView == Object__init__("GraphicsView", TheClient, [oid |-> 1])

\* AbstractItemModel.items(): one 'model_items' command; ModelItems is built
\* from the reply.
AbstractItemModel_items(model, data) ==
    [sent |-> <<[cmd |-> "model_items", oid |-> ObjectOid(model)]>>,
     ret |-> TreeItems__init__("ModelItems", TheClient, data)]

\* GraphicsView.gitems(): one 'graphicsitems' command; GItems is built from
\* the reply.
GraphicsView_gitems(view, data) ==
    [sent |-> <<[cmd |-> "graphicsitems", oid |-> ObjectOid(view)]>>,
     ret |-> TreeItems__init__("GItems", TheClient, data)]

\* The call that builds a collection of class cls from the data the server
\* holds: model.items(), view.gitems(), or the constructor TreeItems(client,
\* data) itself, which sends nothing.
CollectionCall(cls, data) ==
    CASE cls = "ModelItems" -> AbstractItemModel_items(TheModel, data)
      [] cls = "GItems" -> GraphicsView_gitems(TheGraphicsView, data)
      [] cls = "TreeItems" ->
             [sent |-> <<>>, ret |-> TreeItems__init__("TreeItems", TheClient, data)]

\* AbstractItemModel.items() / GraphicsView.gitems(): the command is sent and
\* the collection is built from the reply.
BuildCollection(cls) ==
    /\ coll = None
    /\ LET r == CollectionCall(cls, reply)
       IN  /\ coll' = r.ret
           /\ sent' = r.sent
           /\ n_sent' = n_sent + Len(r.sent)
    /\ UNCHANGED <<reply, gen, t_pc, t_out>>
    /\ UNCHANGED <<n_ops, c_pc, c_op, c_ret, c_seen, c_prev, written, c_frame>>
    /\ UNCHANGED <<dispatchVars, pathVars, waitVars>>

\* A collection has been built without error.
Built == coll # None /\ coll.kind = "collection"

\* The traversals that may run at the same time.
Traversals == {1, 2}

\* TreeItems.__iter__ is a generator function: every call makes a new
\* generator object with a frame of its own. The generator of traversal k.
SharedGenerator(k) == 1

NewGenerator(k) == k

\* A generator that has not run yet: it will enter __iter(self.items).
FreshGenerator == [stack |-> <<[at |-> <<>>, i |-> 0]>>]

\* The for loop of the innermost __iter frame goes on: the next item of its
\* list is yielded, or the frame ends and its caller's loop goes on.
RECURSIVE Advance(_, _)
Advance(items, stack) ==
    IF stack = <<>>
        THEN [stop |-> TRUE, stack |-> <<>>]
        ELSE LET f == stack[Len(stack)]
             IN  IF f.i < Len(ItemsAt(items, f.at))
                     THEN [stop |-> FALSE,
                           yield |-> Append(f.at, f.i + 1),
                           stack |-> [stack EXCEPT ![Len(stack)].i = f.i + 1]]
                     ELSE Advance(items, SubSeq(stack, 1, Len(stack) - 1))

\* next(generator): after `yield item` comes `yield from __iter(item.items)`.
GeneratorNextNoDescent(items, stack) == Advance(items, stack)

GeneratorNext(items, stack) ==
    IF stack # <<>> /\ stack[Len(stack)].i >= 1
        THEN LET f == stack[Len(stack)]
             IN  Advance(items, Append(stack, [at |-> Append(f.at, f.i), i |-> 0]))
        ELSE Advance(items, stack)

\* The items a generator yields when nothing else runs, from a given frame stack.
RECURSIVE Drain(_, _, _)
Drain(items, stack, acc) ==
    LET r == GeneratorNext(items, stack)
    IN  IF r.stop THEN acc ELSE Drain(items, r.stack, Append(acc, r.yield))

\* for item in collection: the items of a whole traversal, in order.
TraversalAlone(items) == Drain(items, FreshGenerator.stack, <<>>)

\* iter(collection), or the start of `for item in collection`.
IterStart(k) ==
    /\ coll # None /\ coll.kind = "collection"
    /\ t_pc[k] # "running"
    /\ gen' = [gen EXCEPT ![NewGenerator(k)] = FreshGenerator]
    /\ t_pc' = [t_pc EXCEPT ![k] = "running"]
    /\ t_out' = [t_out EXCEPT ![k] = <<>>]
    /\ UNCHANGED <<reply, coll>>
    /\ UNCHANGED <<dispatchVars, pathVars, waitVars, chanVars>>

\* The traversal asks its generator for the next item.
IterNext(k) ==
    /\ t_pc[k] = "running"
    /\ LET r == GeneratorNext(coll.items, gen[NewGenerator(k)].stack)
       IN  /\ gen' = [gen EXCEPT ![NewGenerator(k)].stack = r.stack]
           /\ IF r.stop
                  THEN /\ t_pc' = [t_pc EXCEPT ![k] = "done"]
                       /\ UNCHANGED t_out
                  ELSE /\ t_out' = [t_out EXCEPT ![k] = Append(@, r.yield)]
                       /\ UNCHANGED t_pc
    /\ UNCHANGED <<reply, coll>>
    /\ UNCHANGED <<dispatchVars, pathVars, waitVars, chanVars>>


TreeInit ==
    /\ reply = [items |-> <<>>]
    /\ coll = None
    /\ gen = [g \in Traversals |-> [stack |-> <<>>]]
    /\ t_pc = [k \in Traversals |-> "idle"]
    /\ t_out = [k \in Traversals |-> <<>>]

(***************************************************************************)
(* Named-path lookup (ModelItems.row_by_named_path, item_by_named_path).   *)
(***************************************************************************)

\* str.split(sep) for a non-empty sep: the position of the first sep in s, or 0.
FindSep(s, sep) ==
    LET hits == {i \in 1..(Len(s) - Len(sep) + 1) : SubSeq(s, i, i + Len(sep) - 1) = sep}
    IN  IF hits = {} THEN 0 ELSE CHOOSE i \in hits : \A j \in hits : i <= j

RECURSIVE split(_, _)
split(s, sep) ==
    LET i == FindSep(s, sep)
    IN  IF i = 0 THEN <<s>>
        ELSE <<SubSeq(s, 1, i - 1)>> \o split(SubSeq(s, i + Len(sep), Len(s)), sep)

\* match_column == item_.column and item_.value == part
Matches(it, match_column, part) ==
    match_column = it.attrs.column /\ it.attrs.value = part

\* sorted(row, key=lambda it: it.column) over positions of the sibling list:
\* insertion of x, which stood before every element of `sorted`.
RECURSIVE InsertByColumn(_, _, _)
InsertByColumn(sib, x, sorted) ==
    IF sorted = <<>> \/ sib[x].attrs.column <= sib[Head(sorted)].attrs.column
        THEN <<x>> \o sorted
        ELSE <<Head(sorted)>> \o InsertByColumn(sib, x, Tail(sorted))

SortedUnsorted(sib, idxs) == idxs

RECURSIVE SortedByColumn(_, _)
SortedByColumn(sib, idxs) ==
    IF idxs = <<>> THEN <<>>
    ELSE InsertByColumn(sib, Head(idxs), SortedByColumn(sib, Tail(idxs)))

\* [it for it in item.items if it.row == item_.row], sorted by column: the
\* positions in the sibling list of the items of the row of the item at i.
RowOf(sib, i) ==
    LET SameRow(j) == sib[j].attrs.row = sib[i].attrs.row
    IN  SortedByColumn(sib, SelectSeq([j \in 1..Len(sib) |-> j], SameRow))

\* The for loop over item.items from position i on: it returns at the first
\* match when part was the last one, otherwise it goes through the whole list
\* and next_item is left at the last match (0 stands for None).
RECURSIVE ForLoopDescendAnyway(_, _, _, _, _, _)
ForLoopDescendAnyway(sib, i, part, rest, match_column, next_item) ==
    IF i > Len(sib)
        THEN [kind |-> "end",
              next_item |-> IF next_item = 0 /\ sib # <<>> THEN 1 ELSE next_item]
    ELSE IF Matches(sib[i], match_column, part)
        THEN IF rest = <<>>
                 THEN [kind |-> "return", at |-> i]
                 ELSE ForLoopDescendAnyway(sib, i + 1, part, rest, match_column, i)
    ELSE ForLoopDescendAnyway(sib, i + 1, part, rest, match_column, next_item)

RECURSIVE ForLoop(_, _, _, _, _, _)
ForLoop(sib, i, part, rest, match_column, next_item) ==
    IF i > Len(sib)
        THEN [kind |-> "end", next_item |-> next_item]
    ELSE IF Matches(sib[i], match_column, part)
        THEN IF rest = <<>>
                 THEN [kind |-> "return", at |-> i]
                 ELSE ForLoop(sib, i + 1, part, rest, match_column, i)
    ELSE ForLoop(sib, i + 1, part, rest, match_column, next_item)

\* while item and parts: item is None or the address of the object whose
\* items are scanned (objects are always true); levels records each scan.
RECURSIVE WhileLoop(_, _, _, _, _)
WhileLoop(items, item, parts, match_column, levels) ==
    IF item = None \/ parts = <<>>
        THEN [ret |-> None, levels |-> levels]
        ELSE LET part == Head(parts)
                 rest == Tail(parts)
                 sib == ItemsAt(items, item.addr)
                 scan == ForLoop(sib, 1, part, rest, match_column, 0)
                 seen == Append(levels, [at |-> item.addr, part |-> part])
             IN  IF scan.kind = "return"
                     THEN [ret |-> [kind |-> "list",
                                    v |-> [n \in 1..Len(RowOf(sib, scan.at)) |->
                                              Append(item.addr, RowOf(sib, scan.at)[n])]],
                           levels |-> seen]
                     ELSE WhileLoop(items,
                                    IF scan.next_item = 0 THEN None
                                    ELSE [kind |-> "at",
                                          addr |-> Append(item.addr, scan.next_item)],
                                    rest, match_column, seen)

\* The parts of a named path: a copy of the list or tuple, or the string split.
Parts(named_path, sep) ==
    IF named_path.kind \in {"list", "tuple"}
        THEN named_path.v
        ELSE split(named_path.v, sep)

\* Which list object `parts` is: list(named_path) and named_path.split(sep)
\* both make a new list, so parts.pop(0) never touches the caller's object.
PartsObjectAlias(named_path) ==
    IF named_path.kind = "list" THEN "caller" ELSE "new"

PartsObject(named_path) == "new"

\* The elements of the caller's path object once the while loop has popped
\* one element of `parts` per level it scanned.
CallerPathAfter(named_path, levels) ==
    IF PartsObject(named_path) = "caller"
        THEN SubSeq(named_path.v, Len(levels) + 1, Len(named_path.v))
        ELSE named_path.v

\* ModelItems.row_by_named_path(named_path, match_column, sep)
row_by_named_path(items, named_path, match_column, sep) ==
    WhileLoop(items, [kind |-> "at", addr |-> <<>>], Parts(named_path, sep),
              match_column, <<>>)

\* list[n] of Python for an int n, on a list of addresses.
PyIndex(list, n) ==
    IF 0 <= n /\ n < Len(list) THEN [kind |-> "item", addr |-> list[n + 1]]
    ELSE IF n < 0 /\ -Len(list) <= n
        THEN [kind |-> "item", addr |-> list[Len(list) + n + 1]]
    ELSE [kind |-> "IndexError"]

\* ModelItems.item_by_named_path: items[column] if items else None
item_by_named_path(items, named_path, match_column, sep, column) ==
    LET found == row_by_named_path(items, named_path, match_column, sep).ret
    IN  IF found = None \/ found.v = <<>> THEN None ELSE PyIndex(found.v, column)

\* The named paths of the model: lists of item texts, and strings to split.
ListPaths ==
    {[kind |-> "list", v |-> v] : v \in UNION {[1..n -> Values] : n \in 0..MaxPath}}

StrPaths ==
    {[kind |-> "str", v |-> v] :
        v \in {<<>>, <<"A">>, <<"A", "/", "B">>, <<"B", "/", "A">>, <<"A", "/">>}}

Seps == {<<"/">>}

\* The items of the replies the lookups run on: a name column 0 with text A
\* and a column 1 with text B, in two rows.
ItemFields ==
    {[row |-> 0, column |-> 0, value |-> <<"A">>],
     [row |-> 0, column |-> 1, value |-> <<"B">>],
     [row |-> 1, column |-> 0, value |-> <<"A">>],
     [row |-> 1, column |-> 1, value |-> <<"B">>]}

ColumnArgs == {0, 1}

\* A caller looks a row up by its named path.
CallRowByNamedPath(named_path, match_column, sep) ==
    /\ Built /\ coll.class = "ModelItems"
    /\ p_pc = "idle"
    /\ p_pc' = "done"
    /\ p_op' = "row"
    /\ p_args' = [named_path |-> named_path, match_column |-> match_column,
                  sep |-> sep, column |-> 0]
    /\ p_row' = row_by_named_path(coll.items, named_path, match_column, sep).ret
    /\ p_levels' = row_by_named_path(coll.items, named_path, match_column, sep).levels
    /\ p_ret' = None
    /\ p_after' = CallerPathAfter(named_path,
                      row_by_named_path(coll.items, named_path, match_column, sep).levels)
    /\ p_calls' = 1
    /\ UNCHANGED p_first
    /\ UNCHANGED <<dispatchVars, treeVars, waitVars, chanVars>>

\* A caller looks an item up by its named path and column.
CallItemByNamedPath(named_path, match_column, sep, column) ==
    /\ Built /\ coll.class = "ModelItems"
    /\ p_pc = "idle"
    /\ p_pc' = "done"
    /\ p_op' = "item"
    /\ p_args' = [named_path |-> named_path, match_column |-> match_column,
                  sep |-> sep, column |-> column]
    /\ p_row' = row_by_named_path(coll.items, named_path, match_column, sep).ret
    /\ p_levels' = row_by_named_path(coll.items, named_path, match_column, sep).levels
    /\ p_ret' = item_by_named_path(coll.items, named_path, match_column, sep, column)
    /\ p_after' = CallerPathAfter(named_path,
                      row_by_named_path(coll.items, named_path, match_column, sep).levels)
    /\ p_calls' = 1
    /\ UNCHANGED p_first
    /\ UNCHANGED <<dispatchVars, treeVars, waitVars, chanVars>>

\* The caller makes the same call once more, with the same objects: the
\* path object as the first call left it, the same collection.
CallAgain ==
    /\ p_pc = "done" /\ p_calls = 1
    /\ LET named_path == [kind |-> p_args.named_path.kind, v |-> p_after]
           r == row_by_named_path(coll.items, named_path, p_args.match_column, p_args.sep)
       IN  /\ p_row' = r.ret
           /\ p_levels' = r.levels
           /\ p_ret' = IF p_op = "item"
                           THEN item_by_named_path(coll.items, named_path, p_args.match_column,
                                                   p_args.sep, p_args.column)
                           ELSE None
           /\ p_after' = CallerPathAfter(named_path, r.levels)
    /\ p_first' = [row |-> p_row, ret |-> p_ret]
    /\ p_calls' = 2
    /\ UNCHANGED <<p_pc, p_op, p_args>>
    /\ UNCHANGED <<dispatchVars, treeVars, waitVars, chanVars>>

PathInit ==
    /\ p_pc = "idle"
    /\ p_op = "row"
    /\ p_args = [named_path |-> [kind |-> "list", v |-> <<>>], match_column |-> 0,
                 sep |-> <<"/">>, column |-> 0]
    /\ p_levels = <<>>
    /\ p_row = None
    /\ p_ret = None
    /\ p_after = <<>>
    /\ p_calls = 0
    /\ p_first = None

(***************************************************************************)
(* Property values and the server's answer to 'object_properties'.         *)
(***************************************************************************)

\* Property names and values; a value is None or a boolean.
PropNames == {"enabled", "visible"}

PyTrue == [kind |-> "bool", v |-> TRUE]

PyFalse == [kind |-> "bool", v |-> FALSE]

PropValues == {None, PyTrue, PyFalse}

\* The dicts from property names to values.
PropDicts == UNION {[S -> PropValues] : S \in SUBSET PropNames}

\* dict.get(k): the value, or None when the key is absent.
DictGet(d, k) == IF k \in DOMAIN d THEN d[k] ELSE None

\* Object.Properties.__call__: send_command('object_properties', oid=...)
\* answers with the properties the server holds at that time.
object_properties(held) == held

(***************************************************************************)
(* The remote object and its property proxy (Object, Object.Properties).   *)
(***************************************************************************)
MaxOps == 3          \* most operations called on the object in one behaviour

\* The object the operations are called on: a Widget built from a descriptor.
TheObject == Object__init__("Widget", TheClient, [oid |-> 1, path |-> "mainWindow::view"])

\* dict.update: d with the pairs of e written over it.
DictUpdate(d, e) ==
    [k \in DOMAIN d \cup DOMAIN e |-> IF k \in DOMAIN e THEN e[k] ELSE d[k]]

\* Properties.__call__: one 'object_properties' command; the reply is returned.
Properties__call__Twice(obj, held) ==
    [sent |-> <<[cmd |-> "object_properties", oid |-> ObjectOid(obj)],
                [cmd |-> "object_properties", oid |-> ObjectOid(obj)]>>,
     ret |-> [kind |-> "dict", v |-> object_properties(held)]]

Properties__call__(obj, held) ==
    [sent |-> <<[cmd |-> "object_properties", oid |-> ObjectOid(obj)]>>,
     ret |-> [kind |-> "dict", v |-> object_properties(held)]]

\* dict[item]: the value, or KeyError.
DictItem(d, item) ==
    IF item \in DOMAIN d THEN d[item] ELSE [kind |-> "KeyError", key |-> item]

\* Properties.__contains__: item in self()
Properties__contains__(obj, item, held) ==
    LET r == Properties__call__(obj, held)
    IN  [sent |-> r.sent, ret |-> IF item \in DOMAIN r.ret.v THEN PyTrue ELSE PyFalse]

\* Properties.__getitem__: self()[item]
Properties__getitem__(obj, item, held) ==
    LET r == Properties__call__(obj, held)
    IN  [sent |-> r.sent, ret |-> DictItem(r.ret.v, item)]

\* Properties.__getattr__, reached for every name that is no attribute of the
\* proxy itself: self()[item]
Properties__getattr__(obj, item, held) ==
    LET r == Properties__call__(obj, held)
    IN  [sent |-> r.sent, ret |-> DictItem(r.ret.v, item)]

\* The four ways to read through the proxy.
ReadStyles == {"call", "contains", "getitem", "getattr"}

ProxyRead(style, obj, item, held) ==
    CASE style = "call" -> Properties__call__(obj, held)
      [] style = "contains" -> Properties__contains__(obj, item, held)
      [] style = "getitem" -> Properties__getitem__(obj, item, held)
      [] style = "getattr" -> Properties__getattr__(obj, item, held)

\* Object.set_properties(**properties): one 'object_set_properties' command.
Object_set_properties(obj, properties) ==
    [sent |-> <<[cmd |-> "object_set_properties", oid |-> ObjectOid(obj),
                 properties |-> properties]>>]

\* Object.set_property(name, value): self.set_properties(**{name: value})
Object_set_property(obj, name, value) ==
    Object_set_properties(obj, [k \in {name} |-> value])

\* Properties.__setitem__: self.__obj.set_properties(**{item: value})
Properties__setitem__(obj, item, value) ==
    Object_set_properties(obj, [k \in {item} |-> value])

\* Properties.__setattr__: self.__obj.set_properties(**{item: value})
Properties__setattr__Local(obj, item, value) == [sent |-> <<>>]

Properties__setattr__(obj, item, value) ==
    Object_set_properties(obj, [k \in {item} |-> value])

\* The four ways to write: the pairs given, and the commands sent.
WriteStyles == {"set_properties", "set_property", "setitem", "setattr"}

ProxyWrite(style, obj, properties) ==
    LET name == CHOOSE k \in DOMAIN properties : TRUE
    IN  CASE style = "set_properties" -> Object_set_properties(obj, properties)
          [] style = "set_property" -> Object_set_property(obj, name, properties[name])
          [] style = "setitem" -> Properties__setitem__(obj, name, properties[name])
          [] style = "setattr" -> Properties__setattr__(obj, name, properties[name])

\* A channel double that stores the pairs 'object_set_properties' carries and
\* answers 'object_properties' with what it stores: the store after the
\* commands of a list.
RECURSIVE FakeChannelStore(_, _)
FakeChannelStore(store, cmds) ==
    IF cmds = <<>> THEN store
    ELSE FakeChannelStore(
             IF Head(cmds).cmd = "object_set_properties"
                 THEN DictUpdate(store, Head(cmds).properties)
                 ELSE store,
             Tail(cmds))

\* A read through the proxy, in one of the four styles.
ReadProperty(style, item) ==
    /\ n_ops < MaxOps
    /\ LET r == ProxyRead(style, TheObject, item, remote)
       IN  /\ sent' = r.sent
           /\ n_sent' = n_sent + Len(r.sent)
           /\ c_ret' = r.ret
    /\ n_ops' = n_ops + 1
    /\ c_op' = [kind |-> "read", style |-> style, item |-> item]
    /\ c_seen' = remote
    /\ c_prev' = [op |-> c_op, ret |-> c_ret]
    /\ UNCHANGED <<c_pc, written, c_frame>>
    /\ UNCHANGED <<dispatchVars, treeVars, pathVars, waitVars>>

\* A write, in one of the four styles, on the channel double.
WriteProperties(style, properties) ==
    /\ n_ops < MaxOps
    /\ style # "set_properties" => Cardinality(DOMAIN properties) = 1
    /\ LET r == ProxyWrite(style, TheObject, properties)
       IN  /\ sent' = r.sent
           /\ n_sent' = n_sent + Len(r.sent)
           /\ remote' = FakeChannelStore(remote, r.sent)
    /\ c_ret' = None
    /\ n_ops' = n_ops + 1
    /\ c_op' = [kind |-> "write", style |-> style, properties |-> properties]
    /\ written' = DictUpdate(written, properties)
    /\ c_prev' = [op |-> c_op, ret |-> c_ret]
    /\ UNCHANGED <<c_pc, c_seen, c_frame>>
    /\ UNCHANGED <<now, w_pc, w_args, w_start, w_rounds, w_live, w_true, w_ret>>
    /\ UNCHANGED <<dispatchVars, treeVars, pathVars>>

\* No set_current_text call has run yet.
NoFrame == [column |-> None, model |-> None, data |-> None, index |-> None]

ChanInit ==
    /\ sent = <<>>
    /\ n_sent = 0
    /\ n_ops = 0
    /\ c_pc = "idle"
    /\ c_op = [kind |-> "none"]
    /\ c_ret = None
    /\ c_seen = <<>>
    /\ c_prev = [op |-> [kind |-> "none"], ret |-> None]
    /\ written = <<>>
    /\ c_frame = NoFrame

(***************************************************************************)
(* Polling for properties (Object.wait_for_properties, funq.tools.wait_for). *)
(***************************************************************************)

\* check_props() of wait_for_properties, on the fetched properties.
check_props(properties, props) ==
    \A k \in DOMAIN props : ~(DictGet(properties, k) # props[k])

\* return wait_for(check_props, timeout, timeout_interval): the arguments
\* wait_for is given.
wait_for_args_swapped(timeout, timeout_interval) ==
    [timeout |-> timeout_interval, poll_interval |-> timeout]

wait_for_args(timeout, timeout_interval) ==
    [timeout |-> timeout, poll_interval |-> timeout_interval]

\* wait_for after an evaluation of the predicate: it returns true when the
\* predicate was true; after the first evaluation it sleeps; after a later
\* one it returns false once the time since the first evaluation has reached
\* the timeout, and sleeps otherwise.
wait_for(first, result, elapsed, timeout) ==
    IF result THEN "return_true"
    ELSE IF first THEN "sleep"
    ELSE IF elapsed >= timeout THEN "return_false"
    ELSE "sleep"

\* How long an evaluation of the predicate (a remote call) may take, in ticks.
EvalCosts == {0, 1}

\* The server's object changes its properties, before the call or while the
\* client sleeps.
RemoteChange(held) ==
    /\ w_pc \in {"idle", "sleep"}
    /\ held # remote
    /\ remote' = held
    /\ UNCHANGED <<now, w_pc, w_args, w_start, w_rounds, w_live, w_true, w_ret>>
    /\ UNCHANGED <<dispatchVars, treeVars, pathVars, chanVars>>

\* object.wait_for_properties(props, timeout, timeout_interval) is called.
CallWaitForProperties(props, timeout, timeout_interval) ==
    /\ w_pc = "idle"
    /\ w_pc' = "evaluate"
    /\ w_args' = [props |-> props, timeout |-> timeout,
                  timeout_interval |-> timeout_interval]
    /\ w_start' = now
    /\ UNCHANGED <<remote, now, w_rounds, w_live, w_true, w_ret>>
    /\ UNCHANGED <<dispatchVars, treeVars, pathVars, chanVars>>

\* wait_for evaluates check_props, which fetches the properties, and decides.
WaitForEvaluate(cost) ==
    /\ w_pc = "evaluate"
    /\ LET a == wait_for_args(w_args.timeout, w_args.timeout_interval)
           fetch == Properties__call__(TheObject, remote)
           properties == fetch.ret.v
           result == check_props(properties, w_args.props)
           next == wait_for(w_rounds = 0, result, (now + cost) - w_start, a.timeout)
       IN  /\ sent' = sent \o fetch.sent
           /\ n_sent' = n_sent + Len(fetch.sent)
           /\ now' = now + cost
           /\ w_live' = IF next = "sleep" THEN w_live ELSE properties
           /\ w_true' = (w_true \/ result)
           /\ w_pc' = IF next = "sleep" THEN "sleep" ELSE "done"
           /\ w_ret' = IF next = "return_true" THEN PyTrue
                       ELSE IF next = "return_false" THEN PyFalse
                       ELSE w_ret
    /\ UNCHANGED <<remote, w_args, w_start, w_rounds>>
    /\ UNCHANGED <<n_ops, c_pc, c_op, c_ret, c_seen, c_prev, written, c_frame>>
    /\ UNCHANGED <<dispatchVars, treeVars, pathVars>>

\* wait_for sleeps for the poll interval.
WaitForSleep ==
    /\ w_pc = "sleep"
    /\ w_rounds < MaxTimeout + 2
    /\ LET a == wait_for_args(w_args.timeout, w_args.timeout_interval)
       IN  now' = now + a.poll_interval
    /\ w_rounds' = w_rounds + 1
    /\ w_pc' = "evaluate"
    /\ UNCHANGED <<remote, w_args, w_start, w_live, w_true, w_ret>>
    /\ UNCHANGED <<dispatchVars, treeVars, pathVars, chanVars>>

(***************************************************************************)
(* Click-style operations (Widget.click, AbstractItemView.click_item,      *)
(* GItem.click).                                                           *)
(***************************************************************************)

\* The button names a caller may give; "top" is none of the three buttons.
Buttons == {"left", "right", "middle", "top"}

\* The if/elif chain the three operations share: the action of a button, or
\* ValueError for any other name.
MouseAction(btn) ==
    CASE btn = "left" -> [kind |-> "action", v |-> "click"]
      [] btn = "right" -> [kind |-> "action", v |-> "rightclick"]
      [] btn = "middle" -> [kind |-> "action", v |-> "middleclick"]
      [] OTHER -> [kind |-> "ValueError", btn |-> btn]

\* timeout_interval=0.1 of wait_for_properties, in ticks.
DefaultInterval == 1

\* The values of wait_for_enabled a caller may give, in ticks.
ClickWaits == {0, 1, 2}

\* What Widget.click waits for.
EnabledAndVisible == [k \in {"enabled", "visible"} |-> PyTrue]

\* The rest of Widget.click, after the wait if there was one: the button is
\* looked at, and 'widget_click' is sent for one of the three buttons.
WidgetClickTail(obj, btn) ==
    IF MouseAction(btn).kind = "action"
        THEN [sent |-> <<[cmd |-> "widget_click", oid |-> ObjectOid(obj),
                          mouseAction |-> MouseAction(btn).v]>>,
              ret |-> None]
        ELSE [sent |-> <<>>, ret |-> MouseAction(btn)]

\* The item of a view and the graphics item the clicks are made on.
TheModelItem ==
    TreeItem__init__("ModelItem", TheClient,
                     [row |-> 0, column |-> 1, value |-> <<"A">>, itempath |-> <<"0">>])

TheGItem == TreeItem__init__("GItem", TheClient, [viewid |-> 1, gid |-> 5])

Origins == {"center", "left"}

\* AbstractItemView._item_action: one 'model_item_action' command.
AbstractItemView_item_action(obj, item, itemaction, origin, offset_x, offset_y) ==
    <<[cmd |-> "model_item_action", oid |-> ObjectOid(obj), itemaction |-> itemaction,
       row |-> item.attrs.row, column |-> item.attrs.column, origin |-> origin,
       offset_x |-> offset_x, offset_y |-> offset_y, itempath |-> item.attrs.itempath]>>

\* AbstractItemView.click_item: the button is looked at first.
AbstractItemView_click_item(obj, item, origin, offset_x, offset_y, btn) ==
    IF MouseAction(btn).kind = "action"
        THEN [sent |-> AbstractItemView_item_action(obj, item, MouseAction(btn).v,
                                                    origin, offset_x, offset_y),
              ret |-> None]
        ELSE [sent |-> <<>>, ret |-> MouseAction(btn)]

\* GItem.click: the button is looked at first, then _action sends
\* 'model_gitem_action'.
GItem_click(item, btn) ==
    IF MouseAction(btn).kind = "action"
        THEN [sent |-> <<[cmd |-> "model_gitem_action", oid |-> item.attrs.viewid,
                          itemaction |-> MouseAction(btn).v, gid |-> item.attrs.gid]>>,
              ret |-> None]
        ELSE [sent |-> <<>>, ret |-> MouseAction(btn)]

\* widget.click(wait_for_enabled, btn) is called: with wait_for_enabled > 0
\* it first enters wait_for_properties; otherwise it goes on at once.
CallWidgetClick(wait_for_enabled, btn) ==
    /\ c_pc = "idle" /\ w_pc = "idle"
    /\ c_op' = [kind |-> "click", op |-> "Widget.click", btn |-> btn,
                wait_for_enabled |-> wait_for_enabled]
    /\ c_prev' = [op |-> c_op, ret |-> c_ret]
    /\ n_ops' = n_ops + 1
    /\ IF wait_for_enabled > 0
           THEN /\ c_pc' = "waiting"
                /\ w_pc' = "evaluate"
                /\ w_args' = [props |-> EnabledAndVisible, timeout |-> wait_for_enabled,
                              timeout_interval |-> DefaultInterval]
                /\ w_start' = now
                /\ sent' = <<>>
                /\ UNCHANGED <<n_sent, c_ret>>
           ELSE /\ c_pc' = "done"
                /\ sent' = WidgetClickTail(TheObject, btn).sent
                /\ n_sent' = n_sent + Len(WidgetClickTail(TheObject, btn).sent)
                /\ c_ret' = WidgetClickTail(TheObject, btn).ret
                /\ UNCHANGED <<w_pc, w_args, w_start>>
    /\ UNCHANGED <<remote, now, w_rounds, w_live, w_true, w_ret, c_seen, written, c_frame>>
    /\ UNCHANGED <<dispatchVars, treeVars, pathVars>>

\* wait_for_properties has returned (its result is dropped): Widget.click
\* goes on with the button.
WidgetClickAfterWait ==
    /\ c_pc = "waiting" /\ w_pc = "done"
    /\ c_pc' = "done"
    /\ sent' = sent \o WidgetClickTail(TheObject, c_op.btn).sent
    /\ n_sent' = n_sent + Len(WidgetClickTail(TheObject, c_op.btn).sent)
    /\ c_ret' = WidgetClickTail(TheObject, c_op.btn).ret
    /\ UNCHANGED <<n_ops, c_op, c_seen, c_prev, written, c_frame>>
    /\ UNCHANGED <<dispatchVars, treeVars, pathVars, waitVars>>

\* view.click_item(item, origin, offset_x, offset_y, btn) is called.
CallClickItem(origin, btn) ==
    /\ c_pc = "idle" /\ w_pc = "idle"
    /\ c_op' = [kind |-> "click", op |-> "AbstractItemView.click_item", btn |-> btn,
                origin |-> origin]
    /\ c_prev' = [op |-> c_op, ret |-> c_ret]
    /\ n_ops' = n_ops + 1
    /\ c_pc' = "done"
    /\ LET r == AbstractItemView_click_item(TheObject, TheModelItem, origin, 0, 0, btn)
       IN  /\ sent' = r.sent
           /\ n_sent' = n_sent + Len(r.sent)
           /\ c_ret' = r.ret
    /\ UNCHANGED <<c_seen, written, c_frame>>
    /\ UNCHANGED <<dispatchVars, treeVars, pathVars, waitVars>>

\* gitem.click(btn) is called.
CallGItemClick(btn) ==
    /\ c_pc = "idle" /\ w_pc = "idle"
    /\ c_op' = [kind |-> "click", op |-> "GItem.click", btn |-> btn]
    /\ c_prev' = [op |-> c_op, ret |-> c_ret]
    /\ n_ops' = n_ops + 1
    /\ c_pc' = "done"
    /\ LET r == GItem_click(TheGItem, btn)
       IN  /\ sent' = r.sent
           /\ n_sent' = n_sent + Len(r.sent)
           /\ c_ret' = r.ret
    /\ UNCHANGED <<c_seen, written, c_frame>>
    /\ UNCHANGED <<dispatchVars, treeVars, pathVars, waitVars>>

(***************************************************************************)
(* The editor of a view (AbstractItemView.current_editor).                 *)
(***************************************************************************)

\* AbstractItemView.editor_class_names, in order.
editor_class_names == <<"QLineEdit", "QComboBox", "QSpinBox", "QDoubleSpinBox">>

\* How client.widget(path=...) may end: it returns the widget, it raises
\* FunqError (the server answered with an error), or the channel itself
\* fails (an OSError of the socket).
LookupOutcomes == {"found", "FunqError", "OSError"}

\* For every editor class name, how the lookup of its path ends.
Lookups == [{editor_class_names[i] : i \in 1..Len(editor_class_names)} -> LookupOutcomes]

\* self.path + qt_path + editor_class_name
EditorPath(obj, editor_class_name) ==
    obj.attrs.path \o "::qt_scrollarea_viewport::" \o editor_class_name

\* self.client.widget(path=...): the lookup made and what comes of it. An
\* error carries its type and the lookup that raised it.
ClientWidget(obj, editor_class_name, lookups) ==
    LET path == EditorPath(obj, editor_class_name)
    IN  [made |-> [cmd |-> "client.widget", path |-> path,
                   outcome |-> lookups[editor_class_name]],
         ret |-> IF lookups[editor_class_name] = "found"
                     THEN [kind |-> "widget", path |-> path]
                     ELSE [kind |-> "raise", type |-> lookups[editor_class_name],
                           raised_by |-> "client.widget", path |-> path]]

\* raise FunqError("MissingEditor", ...)
MissingEditor ==
    [kind |-> "raise", type |-> "FunqError", raised_by |-> "current_editor",
     path |-> "MissingEditor"]

\* The for loop over editor_class_names from position i on: the first lookup
\* that succeeds is returned, `except FunqError: pass` goes on to the next
\* name, any other error leaves the loop; MissingEditor after the last name.
RECURSIVE EditorLoop(_, _, _, _)
EditorLoop(obj, i, lookups, made) ==
    IF i > Len(editor_class_names)
        THEN [made |-> made, ret |-> MissingEditor]
        ELSE LET r == ClientWidget(obj, editor_class_names[i], lookups)
             IN  IF r.ret.kind = "raise" /\ r.ret.type = "FunqError"
                     THEN EditorLoop(obj, i + 1, lookups, Append(made, r.made))
                     ELSE [made |-> Append(made, r.made), ret |-> r.ret]

\* The values of editor_class_name a caller may give ("" stands for None:
\* both are false in `if editor_class_name:`).
EditorArgs == {"", "QLineEdit", "QSpinBox"}

\* AbstractItemView.current_editor(editor_class_name)
current_editor(obj, editor_class_name, lookups) ==
    IF editor_class_name # ""
        THEN LET r == ClientWidget(obj, editor_class_name, lookups)
             IN  [made |-> <<r.made>>, ret |-> r.ret]
        ELSE EditorLoop(obj, 1, lookups, <<>>)

\* view.current_editor(editor_class_name) is called.
CallCurrentEditor(editor_class_name, lookups) ==
    /\ c_pc = "idle"
    /\ c_pc' = "done"
    /\ c_op' = [kind |-> "current_editor", editor_class_name |-> editor_class_name,
                lookups |-> lookups]
    /\ c_prev' = [op |-> c_op, ret |-> c_ret]
    /\ n_ops' = n_ops + 1
    /\ LET r == current_editor(TheObject, editor_class_name, lookups)
       IN  /\ sent' = r.made
           /\ n_sent' = n_sent + Len(r.made)
           /\ c_ret' = r.ret
    /\ UNCHANGED <<c_seen, written, c_frame>>
    /\ UNCHANGED <<dispatchVars, treeVars, pathVars, waitVars>>

(***************************************************************************)
(* The text of a combobox (ComboBox.model, ComboBox.set_current_text).     *)
(***************************************************************************)

\* A Python int, as a property value.
PyInt(n) == [kind |-> "int", n |-> n]

\* The reply of the 'model' command: the descriptor of the combobox's model.
ModelDescriptor == [oid |-> 2, path |-> "mainWindow::view::model"]

\* ComboBox.model(): one 'model' command; AbstractItemModel(client, data) is
\* called through the metaclass.
ComboBox_model(obj, reg) ==
    LET r == WidgetMetaClass__call__("AbstractItemModel", ModelDescriptor, reg)
    IN  [sent |-> <<[cmd |-> "model", oid |-> ObjectOid(obj)]>>,
         ret |-> Object__init__(IF r.kind = "construct" THEN "AbstractItemModel" ELSE r.to,
                                TheClient, ModelDescriptor)]

\* The for loop of set_current_text over the traversal from position i on:
\* the row of the first item that matches, or the index -1 it started with.
RECURSIVE FirstTextRow(_, _, _, _, _)
FirstTextRow(items, order, i, column, text) ==
    IF i > Len(order) THEN -1
    ELSE LET it == NodeAt(items, order[i])
         IN  IF column = it.attrs.column /\ it.attrs.value = text
                 THEN it.attrs.row                                   \* break
                 ELSE FirstTextRow(items, order, i + 1, column, text)

\* The properties of the combobox on the server.
ComboHelds == {[k \in {"modelColumn"} |-> PyInt(c)] : c \in Columns}

\* combobox.model() is called: one round trip.
CallComboBoxModel ==
    /\ c_pc = "idle"
    /\ c_pc' = "done"
    /\ c_op' = [kind |-> "model"]
    /\ c_prev' = [op |-> c_op, ret |-> c_ret]
    /\ n_ops' = n_ops + 1
    /\ LET model == ComboBox_model(TheObject, _cpp_classes)
       IN  /\ sent' = model.sent
           /\ n_sent' = n_sent + Len(model.sent)
           /\ c_ret' = model.ret
    /\ UNCHANGED <<c_seen, written, c_frame>>
    /\ UNCHANGED <<dispatchVars, treeVars, pathVars, waitVars>>

\* combobox.set_current_text(text) is called with a string text and runs up
\* to the answer of its first round trip: column = self.properties()
\* ['modelColumn']. `debug` is Python's __debug__: the assert statement is
\* compiled away when it is false (python -O).
CallSetCurrentText(text, debug) ==
    /\ c_pc = "idle"
    /\ c_op' = [kind |-> "set_current_text", text |-> text, debug |-> debug]
    /\ c_prev' = [op |-> c_op, ret |-> c_ret]
    /\ n_ops' = n_ops + 1
    /\ LET props == Properties__call__(TheObject, remote)
           column == DictItem(props.ret.v, "modelColumn")
       IN  /\ sent' = props.sent
           /\ n_sent' = n_sent + Len(props.sent)
           /\ IF column.kind = "KeyError"
                  THEN /\ c_pc' = "done"
                       /\ c_ret' = [kind |-> "raise", type |-> "KeyError"]
                       /\ c_frame' = NoFrame
                  ELSE /\ c_pc' = "model"
                       /\ c_ret' = None
                       /\ c_frame' = [NoFrame EXCEPT !.column = column]
    /\ UNCHANGED <<c_seen, written>>
    /\ UNCHANGED <<dispatchVars, treeVars, pathVars, waitVars>>

\* The second round trip of set_current_text: self.model().
SetCurrentTextModel ==
    /\ c_pc = "model"
    /\ c_pc' = "items"
    /\ LET model == ComboBox_model(TheObject, _cpp_classes)
       IN  /\ sent' = sent \o model.sent
           /\ n_sent' = n_sent + Len(model.sent)
           /\ c_frame' = [c_frame EXCEPT !.model = model.ret]
    /\ UNCHANGED <<n_ops, c_op, c_ret, c_seen, c_prev, written>>
    /\ UNCHANGED <<dispatchVars, treeVars, pathVars, waitVars>>

\* The third round trip of set_current_text: .items() on the model, then the
\* for loop over the collection and the assert.
SetCurrentTextItems ==
    /\ c_pc = "items"
    /\ LET items == AbstractItemModel_items(c_frame.model, reply)
           index == FirstTextRow(items.ret.items, TraversalAlone(items.ret.items), 1,
                                 c_frame.column.n, c_op.text)
       IN  /\ sent' = sent \o items.sent
           /\ n_sent' = n_sent + Len(items.sent)
           /\ IF items.ret.kind = "KeyError"
                  THEN /\ c_pc' = "done"
                       /\ c_ret' = [kind |-> "raise", type |-> "KeyError"]
                       /\ c_frame' = [c_frame EXCEPT !.data = reply]
                  ELSE IF c_op.debug /\ ~(index > -1)
                  THEN /\ c_pc' = "done"
                       /\ c_ret' = [kind |-> "raise", type |-> "AssertionError"]
                       /\ c_frame' = [c_frame EXCEPT !.data = reply, !.index = PyInt(index)]
                  ELSE /\ c_pc' = "set"
                       /\ c_ret' = None
                       /\ c_frame' = [c_frame EXCEPT !.data = reply, !.index = PyInt(index)]
    /\ UNCHANGED <<n_ops, c_op, c_seen, c_prev, written>>
    /\ UNCHANGED <<dispatchVars, treeVars, pathVars, waitVars>>

\* The fourth round trip of set_current_text: self.set_property('currentIndex',
\* index); the call returns None.
SetCurrentTextSet ==
    /\ c_pc = "set"
    /\ c_pc' = "done"
    /\ c_ret' = None
    /\ LET set == Object_set_property(TheObject, "currentIndex", c_frame.index)
       IN  /\ sent' = sent \o set.sent
           /\ n_sent' = n_sent + Len(set.sent)
    /\ UNCHANGED <<n_ops, c_op, c_seen, c_prev, written, c_frame>>
    /\ UNCHANGED <<dispatchVars, treeVars, pathVars, waitVars>>

WaitInit ==
    /\ remote = <<>>
    /\ now = 0
    /\ w_pc = "idle"
    /\ w_args = [props |-> <<>>, timeout |-> 0, timeout_interval |-> 1]
    /\ w_start = 0
    /\ w_rounds = 0
    /\ w_live = <<>>
    /\ w_true = FALSE
    /\ w_ret = None

DispatchInit ==
    /\ _cpp_classes = ImportedRegistry
    /\ classes = ModuleClasses
    /\ d_pc = "idle"
    /\ d_cls = "Object"
    /\ d_data = [oid |-> 1, path |-> "mainWindow::view"]
    /\ d_stack = <<>>
    /\ d_built = <<>>
    /\ d_ret = None

vars == <<dispatchVars, treeVars, pathVars, waitVars, chanVars>>

Init == DispatchInit /\ TreeInit /\ PathInit /\ WaitInit /\ ChanInit

NextDispatch ==
    \/ \E name \in UserClasses, cpp \in ChainNames \cup {NoCppClass} :
           DefineClass(name, cpp)
    \/ \E cls \in ModuleClasses \cup UserClasses, data \in ObjectDescriptors :
           CallClass(cls, data)
    \/ MetaCallStep

SpecDispatch == Init /\ [][NextDispatch]_vars

\* The traversal of a collection; the items' own fields play no part in it,
\* so the replies carry one row and one column.
NextTree ==
    \/ \E depth \in 0..MaxNodes, value \in Values :
           ServerAddItem(depth, 0, 0, value)
    \/ ServerOmitsItems
    \/ \E cls \in CollectionClasses : BuildCollection(cls)
    \/ \E k \in Traversals : IterStart(k)
    \/ \E k \in Traversals : IterNext(k)

SpecTree == Init /\ [][NextTree]_vars

\* The lookups by named path on a ModelItems collection.
NextPath ==
    \/ \E depth \in 0..MaxNodes, f \in ItemFields :
           ServerAddItem(depth, f.row, f.column, f.value)
    \/ BuildCollection("ModelItems")
    \/ \E named_path \in ListPaths \cup StrPaths, match_column \in Columns, sep \in Seps :
           CallRowByNamedPath(named_path, match_column, sep)
    \/ \E named_path \in ListPaths, match_column \in Columns, sep \in Seps,
             column \in ColumnArgs :
           CallItemByNamedPath(named_path, match_column, sep, column)

SpecPath == Init /\ [][NextPath]_vars

\* The lookups by named path, each made once and then once more.
NextPathTwice ==
    \/ NextPath
    \/ CallAgain

SpecPathTwice == Init /\ [][NextPathTwice]_vars

\* The polling of the properties of one remote object.
NextWait ==
    \/ \E held \in PropDicts : RemoteChange(held)
    \/ \E props \in PropDicts, timeout \in 0..MaxTimeout, timeout_interval \in 1..MaxInterval :
           CallWaitForProperties(props, timeout, timeout_interval)
    \/ \E cost \in EvalCosts : WaitForEvaluate(cost)
    \/ WaitForSleep

SpecWait == Init /\ [][NextWait]_vars

\* The properties the server's object goes through while it is read.
ReadHelds ==
    {<<>>, [enabled |-> PyFalse], [enabled |-> PyTrue],
     [enabled |-> PyTrue, visible |-> None]}

\* A value of a field the client knows nothing about.
FieldValue == [kind |-> "str", v |-> "from the server"]

\* Descriptors of remote objects with further fields, among them fields
\* named like attributes the constructor sets itself.
ExtraObjectFields == {"client", "properties", "objectName"}

FieldObjectDescriptors ==
    {[k \in {"oid", "path"} \cup S |->
         IF k = "oid" THEN 1
         ELSE IF k = "path" THEN "mainWindow::view"
         ELSE FieldValue] : S \in SUBSET ExtraObjectFields}

\* Descriptors of items with further fields.
ExtraItemFields == {"client", "check_state"}

FieldItemDescriptors ==
    {[k \in {"row", "column"} \cup S |->
         IF k \in {"row", "column"} THEN 0 ELSE FieldValue] : S \in SUBSET ExtraItemFields}

\* Remote objects and trees built from descriptors with further fields.
NextFields ==
    \/ \E cls \in {"Object", "Widget", "ComboBox"}, data \in FieldObjectDescriptors :
           CallClass(cls, data)
    \/ MetaCallStep
    \/ \E depth \in 0..MaxNodes, d \in FieldItemDescriptors : ServerAddDescriptor(depth, d)
    \/ \E cls \in CollectionClasses : BuildCollection(cls)

SpecFields == Init /\ [][NextFields]_vars

\* The choice of a text in a combobox whose model the server describes.
NextCombo ==
    \/ \E depth \in 0..MaxNodes, f \in ItemFields :
           ServerAddItem(depth, f.row, f.column, f.value)
    \/ \E held \in ComboHelds : RemoteChange(held)
    \/ CallComboBoxModel
    \/ \E text \in Values, debug \in BOOLEAN : CallSetCurrentText(text, debug)
    \/ SetCurrentTextModel
    \/ SetCurrentTextItems
    \/ SetCurrentTextSet

SpecCombo == Init /\ [][NextCombo]_vars

\* The click-style operations, on a widget that the server may enable.
NextClick ==
    \/ \E held \in PropDicts : RemoteChange(held)
    \/ \E wait_for_enabled \in ClickWaits, btn \in Buttons :
           CallWidgetClick(wait_for_enabled, btn)
    \/ \E cost \in EvalCosts : WaitForEvaluate(cost)
    \/ WaitForSleep
    \/ WidgetClickAfterWait
    \/ \E origin \in Origins, btn \in Buttons : CallClickItem(origin, btn)
    \/ \E btn \in Buttons : CallGItemClick(btn)

SpecClick == Init /\ [][NextClick]_vars

\* The lookup of the editor of a view.
NextEditor ==
    \E editor_class_name \in EditorArgs, lookups \in Lookups :
        CallCurrentEditor(editor_class_name, lookups)

SpecEditor == Init /\ [][NextEditor]_vars

\* Reads through the proxy while the server's object changes.
NextRead ==
    \/ \E held \in ReadHelds : RemoteChange(held)
    \/ \E style \in ReadStyles, item \in PropNames : ReadProperty(style, item)

SpecRead == Init /\ [][NextRead]_vars

\* Writes and reads on a channel double that echoes what was written.
NextRoundTrip ==
    \/ \E style \in WriteStyles, properties \in PropDicts :
           WriteProperties(style, properties)
    \/ \E style \in ReadStyles, item \in PropNames : ReadProperty(style, item)

SpecRoundTrip == Init /\ [][NextRoundTrip]_vars


(***************************************************************************)
(* Properties of the dispatch.                                             *)
(***************************************************************************)

\* The positions of the chain whose name is registered.
RegisteredAt(chain, reg) == {i \in 1..Len(chain) : chain[i] \in DOMAIN reg}

\* The position of the most-derived registered name (0 when there is none).
FirstRegisteredAt(chain, reg) ==
    IF RegisteredAt(chain, reg) = {} THEN 0
    ELSE CHOOSE i \in RegisteredAt(chain, reg) :
             \A j \in RegisteredAt(chain, reg) : i <= j

\* The class the most-derived registered name maps to ("" when there is none).
MostDerivedClass(data, reg) ==
    LET chain == DataClasses(data)
        i == FirstRegisteredAt(chain, reg)
    IN  IF i = 0 THEN "" ELSE reg[chain[i]]

\* C1: when the most-derived registered name of the chain maps to a class R
\* other than the called class V, the call returns an instance of exactly R
\* built from the same descriptor.
C1_MostDerivedWins ==
    (d_pc = "done" /\ MostDerivedClass(d_data, _cpp_classes) \notin {"", d_cls})
        => /\ d_ret.kind = "instance"
           /\ d_ret.class = MostDerivedClass(d_data, _cpp_classes)
           /\ \A k \in DOMAIN d_data : d_ret.attrs[k] = d_data[k]
           /\ d_ret.attrs["client"] = TheClient

\* C1 witness: a TableView came out of a call of another class with the
\* chain QTableView, QAbstractItemView, QWidget.
C1_Witness ==
    /\ d_pc = "done"
    /\ d_cls = "Widget"
    /\ DataClasses(d_data) = <<"QTableView", "QAbstractItemView", "QWidget">>
    /\ d_ret.class = "TableView"

\* C2: a call re-dispatches at most once and is never stuck; and when the
\* chain is missing or empty, or holds no registered name, or its
\* most-derived registered name maps to the called class, exactly one
\* instance is constructed, directly, of the called class.
C2_FallbackAndTermination ==
    /\ Len(d_stack) <= 2
    /\ d_pc = "calling" => ENABLED MetaCallStep
    /\ d_pc = "done" => Len(d_built) = 1 /\ d_ret = d_built[1]
    /\ (d_pc = "done" /\ MostDerivedClass(d_data, _cpp_classes) \in {"", d_cls})
           => /\ d_ret.class = d_cls
              /\ d_stack = <<d_cls>>

\* C2 witness: the called class is itself the most-derived registered class
\* of a chain that names it first, and the call has returned.
C2_Witness ==
    /\ d_pc = "done"
    /\ d_cls = "TableView"
    /\ Len(DataClasses(d_data)) >= 2
    /\ DataClasses(d_data)[1] = "QTableView"
    /\ d_ret.class = "TableView"
    /\ d_stack = <<"TableView">>

\* C19: when some name of the chain is registered, the class of the object
\* returned is the class the most-derived registered name maps to, whatever
\* class was called.
C19_ClassFromChainAlone ==
    (d_pc = "done" /\ MostDerivedClass(d_data, _cpp_classes) # "")
        => d_ret.class = MostDerivedClass(d_data, _cpp_classes)

\* C19 witness: TableView was called with a chain whose most-derived
\* registered name is QAbstractItemView, and an AbstractItemView came back.
C19_Witness ==
    /\ d_pc = "done"
    /\ d_cls = "TableView"
    /\ DataClasses(d_data) = <<"QAbstractItemView", "QWidget">>
    /\ d_ret.class = "AbstractItemView"

(***************************************************************************)
(* Properties of the traversal.                                            *)
(***************************************************************************)

\* The addresses of all the items below a list of items.
RECURSIVE AddrsUnder(_, _)
AddrsUnder(items, prefix) ==
    UNION {{Append(prefix, i)} \cup AddrsUnder(items[i].attrs.items, Append(prefix, i)) :
              i \in 1..Len(items)}

IsProperPrefix(a, b) == Len(a) < Len(b) /\ SubSeq(b, 1, Len(a)) = a

\* a lies in the subtree of an item whose later sibling has b in its subtree.
InEarlierSubtree(a, b) ==
    \E n \in 1..Len(a) :
        /\ n <= Len(b)
        /\ SubSeq(a, 1, n - 1) = SubSeq(b, 1, n - 1)
        /\ a[n] < b[n]

\* C3: a finished traversal has yielded every item exactly once, every item
\* before its descendants and the whole subtree of an item before the
\* subtrees of its later siblings; it never yields more than there are items.
C3_PreOrderOnce ==
    \A k \in Traversals :
        LET out == t_out[k]
            all == AddrsUnder(coll.items, <<>>)
        IN  /\ t_pc[k] # "idle" => Len(out) <= Cardinality(all)
            /\ t_pc[k] = "done" =>
                  /\ Len(out) = Cardinality(all)
                  /\ {out[i] : i \in 1..Len(out)} = all
                  /\ \A i, j \in 1..Len(out) :
                         /\ IsProperPrefix(out[i], out[j]) => i < j
                         /\ InEarlierSubtree(out[i], out[j]) => i < j

\* C3 witness: a finished traversal of three items, the first of which has a
\* child and a later sibling.
C3_Witness ==
    /\ Built
    /\ t_pc[1] = "done"
    /\ Len(coll.items) = 2
    /\ Len(coll.items[1].attrs.items) = 1
    /\ t_out[1] = <<(<<1>>), (<<1, 1>>), (<<2>>)>>

\* C4: whatever the interleaving of two traversals, the collection stays as
\* it was built from the reply, and each traversal is handed, step by step,
\* the sequence a traversal running alone is handed, up to its end.
C4_RestartableNonMutating ==
    Built =>
        /\ coll = TreeItems__init__(coll.class, TheClient, reply)
        /\ \A k \in Traversals :
               LET alone == TraversalAlone(coll.items)
               IN  /\ t_pc[k] # "idle" =>
                          /\ Len(t_out[k]) <= Len(alone)
                          /\ t_out[k] = SubSeq(alone, 1, Len(t_out[k]))
                   /\ t_pc[k] = "done" => t_out[k] = alone

\* C4 witness: one traversal has finished a collection of three items while
\* the other, started on the same collection, is part of the way through.
C4_Witness ==
    /\ Built
    /\ t_pc[1] = "done" /\ Len(t_out[1]) = 3
    /\ t_pc[2] = "running" /\ Len(t_out[2]) = 2

(***************************************************************************)
(* Properties of the named-path lookup.                                    *)
(***************************************************************************)

\* The positions, in the sibling list scanned at level k, of the items whose
\* column is match_column and whose value is the segment of that level.
MatchesAtLevel(k) ==
    LET sib == ItemsAt(coll.items, p_levels[k].at)
    IN  {i \in 1..Len(sib) : Matches(sib[i], p_args.match_column, p_levels[k].part)}

MinOf(S) == CHOOSE i \in S : \A j \in S : i <= j

\* The addresses of the items of the list scanned at level k that share the
\* row of the item at position i of that list.
RowMates(k, i) ==
    LET sib == ItemsAt(coll.items, p_levels[k].at)
    IN  {Append(p_levels[k].at, j) : j \in {n \in 1..Len(sib) : sib[n].attrs.row = sib[i].attrs.row}}

ColumnOf(addr) == NodeAt(coll.items, addr).attrs.column

\* The segments of the call in p_args.
CallParts == Parts(p_args.named_path, p_args.sep)

\* C5: at every level where several siblings match the segment, the first of
\* them is used: the next level scans its children, or the returned row is
\* its row.
C5_FirstMatchUsed ==
    p_pc = "done" =>
        \A k \in 1..Len(p_levels) :
            Cardinality(MatchesAtLevel(k)) >= 2 =>
                IF k < Len(CallParts)
                    THEN /\ k < Len(p_levels)
                         /\ p_levels[k + 1].at = Append(p_levels[k].at, MinOf(MatchesAtLevel(k)))
                    ELSE /\ p_row # None
                         /\ {p_row.v[n] : n \in 1..Len(p_row.v)} = RowMates(k, MinOf(MatchesAtLevel(k)))

\* C6: the lookup returns None or a list, never an error; when the list
\* scanned at some level holds no item with the column and the segment's
\* value, that level is the last one scanned and None is returned.
C6_NotFoundIsNone ==
    p_pc = "done" =>
        /\ p_row = None \/ p_row.kind = "list"
        /\ \A k \in 1..Len(p_levels) :
               /\ p_levels[k].part = CallParts[k]
               /\ k > 1 => /\ Len(p_levels[k].at) = k - 1
                           /\ SubSeq(p_levels[k].at, 1, k - 2) = p_levels[k - 1].at
                           /\ p_levels[k].at[k - 1] \in MatchesAtLevel(k - 1)
               /\ MatchesAtLevel(k) = {} => (k = Len(p_levels) /\ p_row = None)

\* C6 witness: the second segment was looked for among the children of a
\* matched item, none matched, and None came back although the first segment
\* has another match whose children hold a match of the second segment.
C6_Witness ==
    /\ p_pc = "done"
    /\ Len(p_levels) = 2
    /\ Cardinality(MatchesAtLevel(1)) = 2
    /\ MatchesAtLevel(2) = {}
    /\ p_row = None
    /\ \E i \in MatchesAtLevel(1) :
           \E c \in 1..Len(coll.items[i].attrs.items) :
               Matches(coll.items[i].attrs.items[c], p_args.match_column, p_levels[2].part)

\* C7 as claimed: a found row is made of exactly the items of the last
\* scanned list in the row of the matched item, in strictly ascending column.
C7_RowStrictlyAscending ==
    (p_pc = "done" /\ p_row # None) =>
        LET k == Len(p_levels)
            row == p_row.v
        IN  /\ k = Len(CallParts)
            /\ {row[n] : n \in 1..Len(row)} = RowMates(k, MinOf(MatchesAtLevel(k)))
            /\ Len(row) = Cardinality(RowMates(k, MinOf(MatchesAtLevel(k))))
            /\ \A n \in 1..(Len(row) - 1) : ColumnOf(row[n]) < ColumnOf(row[n + 1])

\* C7 amended: a found row is made of exactly the items of the last scanned
\* list in the row of the matched item, each once, in ascending column;
\* items of the same column keep the order of the list; the order is strict
\* when no two items of that row share a column.
C7_RowSortedByColumn ==
    (p_pc = "done" /\ p_row # None) =>
        LET k == Len(p_levels)
            row == p_row.v
            mates == RowMates(k, MinOf(MatchesAtLevel(k)))
        IN  /\ k = Len(CallParts)
            /\ {row[n] : n \in 1..Len(row)} = mates
            /\ Len(row) = Cardinality(mates)
            /\ \A n \in 1..(Len(row) - 1) :
                   \/ ColumnOf(row[n]) < ColumnOf(row[n + 1])
                   \/ /\ ColumnOf(row[n]) = ColumnOf(row[n + 1])
                      /\ row[n][k] < row[n + 1][k]
            /\ (\A a, b \in mates : a # b => ColumnOf(a) # ColumnOf(b))
                   => \A n \in 1..(Len(row) - 1) : ColumnOf(row[n]) < ColumnOf(row[n + 1])

\* C7 witness: a row found at the second level whose two items stand in the
\* list in descending column, next to an item of another row.
C7_Witness ==
    /\ p_pc = "done" /\ p_row # None
    /\ Len(p_levels) = 2
    /\ Len(ItemsAt(coll.items, p_levels[2].at)) = 2
    /\ p_row.v = <<(<<1, 2>>), (<<1, 1>>)>>

\* C8 as claimed: item_by_named_path returns None when the path is not
\* found; when the found row holds an item whose column is the requested
\* `column`, it returns an item of that row with that column.
C8_ItemInRequestedColumn ==
    (p_pc = "done" /\ p_op = "item") =>
        /\ p_row = None => p_ret = None
        /\ (p_row # None /\ \E n \in 1..Len(p_row.v) : ColumnOf(p_row.v[n]) = p_args.column)
               => /\ p_ret # None
                  /\ p_ret.kind = "item"
                  /\ p_ret.addr \in {p_row.v[n] : n \in 1..Len(p_row.v)}
                  /\ ColumnOf(p_ret.addr) = p_args.column

\* C20: after a lookup the caller's path object holds the elements it held
\* before, the collection is as it was built from the reply, and the same
\* call made again returns what the first call returned.
C20_InputsUnchanged ==
    p_pc = "done" =>
        /\ p_after = p_args.named_path.v
        /\ coll = TreeItems__init__(coll.class, TheClient, reply)
        /\ p_calls = 2 => p_first = [row |-> p_row, ret |-> p_ret]

\* C20 witness: a path of two segments, given as a list, was found and then
\* looked up again.
C20_Witness ==
    /\ p_pc = "done" /\ p_calls = 2
    /\ p_args.named_path.kind = "list"
    /\ Len(p_args.named_path.v) = 2
    /\ Len(p_levels) = 2
    /\ p_row # None
    /\ p_first.row = p_row

(***************************************************************************)
(* Properties of the polling.                                              *)
(***************************************************************************)

\* C9: the polling never stops short of a return; it makes a second sleep
\* only while the timeout has not elapsed; and when no evaluation of the
\* predicate was true it returns False, no error, with at least the
\* caller's timeout elapsed since the first evaluation.
C9_TimeoutReturnsFalse ==
    /\ w_pc = "evaluate" => ENABLED WaitForEvaluate(0)
    /\ w_pc = "sleep" => ENABLED WaitForSleep
    /\ w_rounds >= 2 => (w_rounds - 1) * w_args.timeout_interval < w_args.timeout
    /\ (w_pc = "done" /\ ~w_true) =>
           /\ w_ret = PyFalse
           /\ w_rounds >= 1
           /\ now - w_start >= w_args.timeout

\* C9 witness: a call with a timeout of two ticks polled every tick has
\* returned False after two sleeps.
C9_Witness ==
    /\ w_pc = "done"
    /\ w_ret = PyFalse
    /\ w_args.timeout = 2 /\ w_args.timeout_interval = 1
    /\ w_rounds = 2

\* C10: wait_for_properties returns True only on an evaluation whose fetched
\* properties hold every expected key with the expected value.
C10_SuccessOnlyWhenAllHeld ==
    (w_pc = "done" /\ w_ret = PyTrue) =>
        \A k \in DOMAIN w_args.props :
            k \in DOMAIN w_live /\ w_live[k] = w_args.props[k]

(***************************************************************************)
(* Properties of the property proxy.                                       *)
(***************************************************************************)

\* What a read of `item` in a style gives when the server holds `held`.
ReadOf(style, item, held) ==
    CASE style = "call" -> [kind |-> "dict", v |-> held]
      [] style = "contains" -> IF item \in DOMAIN held THEN PyTrue ELSE PyFalse
      [] OTHER -> IF item \in DOMAIN held THEN held[item]
                  ELSE [kind |-> "KeyError", key |-> item]

\* C11: n reads have sent n commands; every read, in each of the four
\* styles, sent one 'object_properties' command for the object's oid and
\* returned what the server held when the read was made.
C11_ReadsNeverCached ==
    /\ n_sent = n_ops
    /\ c_op.kind = "read" =>
           /\ sent = <<[cmd |-> "object_properties", oid |-> 1]>>
           /\ c_ret = ReadOf(c_op.style, c_op.item, c_seen)

\* C11 witness: two reads of the same property, item-style and then
\* attribute-style, gave False and then True: the server's value changed
\* between them.
C11_Witness ==
    /\ c_op = [kind |-> "read", style |-> "getattr", item |-> "enabled"]
    /\ c_ret = PyTrue
    /\ c_prev.op = [kind |-> "read", style |-> "getitem", item |-> "enabled"]
    /\ c_prev.ret = PyFalse
    /\ n_sent = 2

\* C12: on the channel double every operation sent one command; a write
\* sent one 'object_set_properties' command for the object's oid with
\* exactly the pairs given; a read of a name that was written returns the
\* value of the last write to it.
C12_RoundTrip ==
    /\ n_sent = n_ops
    /\ c_op.kind = "write" =>
           sent = <<[cmd |-> "object_set_properties", oid |-> 1,
                     properties |-> c_op.properties]>>
    /\ (c_op.kind = "read" /\ c_op.item \in DOMAIN written) =>
           CASE c_op.style = "call" ->
                    /\ c_ret.kind = "dict"
                    /\ \A k \in DOMAIN written :
                           k \in DOMAIN c_ret.v /\ c_ret.v[k] = written[k]
             [] c_op.style = "contains" -> c_ret = PyTrue
             [] OTHER -> c_ret = written[c_op.item]

\* C12 witness: 'enabled' was written attribute-style, then another name was
\* written, and the read of 'enabled' gives the value written first.
C12_Witness ==
    /\ n_ops = 3
    /\ c_op = [kind |-> "read", style |-> "getitem", item |-> "enabled"]
    /\ c_prev.op.kind = "write"
    /\ c_prev.op.style = "setattr"
    /\ DOMAIN c_prev.op.properties = {"visible"}
    /\ c_ret = PyTrue

(***************************************************************************)
(* Properties of the click-style operations.                               *)
(***************************************************************************)

\* C13: a click-style operation called with a button name other than left,
\* right and middle ends in ValueError and has sent no command.
C13_InvalidButtonBeforeRemoteCall ==
    (c_pc = "done" /\ c_op.kind = "click" /\ c_op.btn \notin {"left", "right", "middle"})
        => /\ c_ret.kind = "ValueError"
           /\ sent = <<>>

(***************************************************************************)
(* Properties of the editor lookup.                                        *)
(***************************************************************************)

\* C14: when a lookup made by current_editor raised an error, that lookup
\* is the last thing the call did and that same error is what the call
\* raised to its caller.
C14_RemoteFailurePropagates ==
    (c_pc = "done" /\ c_op.kind = "current_editor") =>
        \A i \in 1..Len(sent) :
            sent[i].outcome # "found" =>
                /\ i = Len(sent)
                /\ c_ret = [kind |-> "raise", type |-> sent[i].outcome,
                            raised_by |-> "client.widget", path |-> sent[i].path]

(***************************************************************************)
(* Properties of the construction of trees.                                *)
(***************************************************************************)

\* The descriptor that the item at an address was built from.
RECURSIVE DescAt(_, _)
DescAt(ds, addr) ==
    IF Len(addr) = 1 THEN ds[addr[1]]
    ELSE DescAt(RawItems(ds[addr[1]]), Tail(addr))

\* C15: building from a descriptor without 'items' gives an entity with an
\* empty child list and no error, for the reply a collection is built from
\* and for the descriptor of every item.
C15_MissingItemsMeansEmpty ==
    coll # None =>
        /\ coll.kind = "collection"
        /\ "items" \notin DOMAIN reply => coll.items = <<>>
        /\ "items" \in DOMAIN reply =>
               \A a \in AddrsUnder(coll.items, <<>>) :
                   "items" \notin DOMAIN DescAt(reply.items, a)
                       => NodeAt(coll.items, a).attrs.items = <<>>

\* The entities of a list were built from the descriptors of a list: one
\* entity per descriptor, in order, each an instance of cls and no raw
\* descriptor, and the same holds of its children and the descriptor's.
RECURSIVE BuiltFrom(_, _, _)
BuiltFrom(entities, ds, cls) ==
    /\ Len(entities) = Len(ds)
    /\ \A i \in 1..Len(ds) :
           /\ DOMAIN entities[i] = {"class", "attrs"}
           /\ entities[i].class = cls
           /\ "items" \in DOMAIN entities[i].attrs
           /\ BuiltFrom(entities[i].attrs.items, RawItems(ds[i]), cls)

\* C18: a built collection has the shape of the reply it was built from,
\* with every item at every depth an instance of the collection's item
\* class and no descriptor left unbuilt.
C18_ShapePreserved ==
    Built => BuiltFrom(coll.items, reply.items, item_class(coll.class))

\* C18 witness: a GItems collection of three items nested three deep, next
\* to the reply it was built from.
C18_Witness ==
    /\ Built
    /\ coll.class = "GItems"
    /\ Len(reply.items) = 1
    /\ Len(RawItems(reply.items[1])) = 1
    /\ Len(RawItems(RawItems(reply.items[1])[1])) = 1
    /\ coll.items[1].attrs.items[1].attrs.items[1].class = "GItem"
    /\ coll.items[1].attrs.items[1].attrs.items[1].attrs.items = <<>>

\* C16: every field of the descriptor other than 'items' is an attribute of
\* the instance with the descriptor's value, and the instance's client is the
\* client given to the constructor; for a remote object and for every item
\* of a tree.
C16_FieldsRetainedVerbatim ==
    /\ d_pc = "done" =>
           /\ \A k \in DOMAIN d_data \ {"items"} :
                  k \in DOMAIN d_ret.attrs /\ d_ret.attrs[k] = d_data[k]
           /\ d_ret.attrs["client"] = TheClient
    /\ Built =>
           \A a \in AddrsUnder(coll.items, <<>>) :
               /\ \A k \in DOMAIN DescAt(reply.items, a) \ {"items"} :
                      /\ k \in DOMAIN NodeAt(coll.items, a).attrs
                      /\ NodeAt(coll.items, a).attrs[k] = DescAt(reply.items, a)[k]
               /\ NodeAt(coll.items, a).attrs["client"] = TheClient

(***************************************************************************)
(* Properties of the combobox.                                             *)
(***************************************************************************)

\* The positions, in the traversal of the items the call was answered with,
\* of the items whose column is the 'modelColumn' the call was answered with
\* and whose value is the text.
TextMatches ==
    LET order == TraversalAlone(TreeItems__init__("ModelItems", TheClient, c_frame.data).items)
    IN  {i \in 1..Len(order) :
            /\ DescAt(c_frame.data.items, order[i]).column = c_frame.column.n
            /\ DescAt(c_frame.data.items, order[i]).value = c_op.text}

\* C17: once set_current_text has ended after the model's items were
\* answered: with a matching item among them, the call ended by one
\* 'object_set_properties' command that sets 'currentIndex' to the row of the
\* first match of the traversal; without one, the call ended in a failure and
\* has sent no 'object_set_properties' command.
C17_SetCurrentText ==
    (/\ c_pc = "done" /\ c_op.kind = "set_current_text"
     /\ c_frame.data # None /\ "items" \in DOMAIN c_frame.data) =>
        LET order == TraversalAlone(
                         TreeItems__init__("ModelItems", TheClient, c_frame.data).items)
        IN  IF TextMatches # {}
                THEN /\ c_ret = None
                     /\ sent[Len(sent)] =
                            [cmd |-> "object_set_properties", oid |-> 1,
                             properties |->
                                 [k \in {"currentIndex"} |->
                                     PyInt(DescAt(c_frame.data.items,
                                                  order[MinOf(TextMatches)]).row)]]
                     /\ \A i \in 1..(Len(sent) - 1) : sent[i].cmd # "object_set_properties"
                ELSE /\ c_ret.kind = "raise"
                     /\ \A i \in 1..Len(sent) : sent[i].cmd # "object_set_properties"

====
